---- MODULE Spec2Model ----
(***************************************************************************)
(* Model of bids_explorer's BidsArchitecture index: the file table         *)
(* (_database) and the error table (_errors) of each index object, the set *)
(* operators __add__ / __sub__ / __and__, and select / remove with         *)
(* _create_mask.                                                           *)
(*                                                                         *)
(* Python strings are sequences of one-character strings, so that split,   *)
(* strip, isdigit and int are computed and never assumed.  A pandas table  *)
(* is a sequence of rows, a row a record whose field id is the index label *)
(* (the inode).  Table objects live in a heap and index objects hold       *)
(* references to them, so that two indexes holding the same DataFrame      *)
(* object are told apart from two indexes holding equal tables.            *)
(***************************************************************************)
EXTENDS Integers, Sequences, FiniteSets, TLC

VARIABLES
    objs,     \* slot -> index object: root, and references to its two tables
    heap,     \* reference -> table (a DataFrame object)
    fs,       \* the candidate files under the root directory
    kw,       \* the selection criteria (**kwargs) of the run
    last      \* the last call: operation, operands, outcome

vars == <<objs, heap, fs, kw, last>>

\* ------------------------------------------------------------------ bounds
\* Index labels (inodes) are 1..MaxId; labels are unique within a table, so a
\* table drawn for an initial state has at most MaxId rows.
MaxId == 2

\* ------------------------------------------------------- python strings
Digits == {"0", "1", "2", "3", "4", "5", "6", "7", "8", "9"}

DigitVal(c) ==
    CASE c = "0" -> 0 [] c = "1" -> 1 [] c = "2" -> 2 [] c = "3" -> 3
      [] c = "4" -> 4 [] c = "5" -> 5 [] c = "6" -> 6 [] c = "7" -> 7
      [] c = "8" -> 8 [] c = "9" -> 9

\* Python's None as a column value or list member: not a string.
None == <<"<None>">>

\* str.isdigit(): non-empty and every character a digit.
isdigit(s) == Len(s) > 0 /\ \A i \in 1..Len(s) : s[i] \in Digits

\* int(s) for a digit string.
RECURSIVE int(_)
int(s) ==
    IF Len(s) = 0 THEN 0
    ELSE 10 * int(SubSeq(s, 1, Len(s) - 1)) + DigitVal(s[Len(s)])

\* str.strip(): leading and trailing blanks removed.
RECURSIVE lstrip(_)
lstrip(s) == IF Len(s) > 0 /\ s[1] = " " THEN lstrip(Tail(s)) ELSE s

RECURSIVE rstrip(_)
rstrip(s) ==
    IF Len(s) > 0 /\ s[Len(s)] = " "
    THEN rstrip(SubSeq(s, 1, Len(s) - 1)) ELSE s

strip(s) == rstrip(lstrip(s))

\* "-" in s
HasHyphen(s) == \E i \in 1..Len(s) : s[i] = "-"

\* s.split("-"): the list of the parts between hyphens.
RECURSIVE split(_)
split(s) ==
    IF ~HasHyphen(s) THEN <<s>>
    ELSE LET i == CHOOSE k \in 1..Len(s) :
                      s[k] = "-" /\ \A j \in 1..(k - 1) : s[j] # "-"
         IN <<SubSeq(s, 1, i - 1)>> \o split(SubSeq(s, i + 1, Len(s)))

\* ------------------------------------------------------- pandas tables
\* DataFrame.index as a list of labels, and as a set.
IndexOf(t) == [i \in 1..Len(t) |-> t[i].id]

Ids(t) == {t[i].id : i \in 1..Len(t)}

UniqueIds(t) == \A i, j \in 1..Len(t) : t[i].id = t[j].id => i = j

RECURSIVE SortedSeq(_)
SortedSeq(S) ==
    IF S = {} THEN <<>>
    ELSE LET m == CHOOSE x \in S : \A y \in S : x <= y
         IN <<m>> \o SortedSeq(S \ {m})

RECURSIVE FilterRows(_, _)
\* df[mask] / df.loc[mask] for the boolean mask "label in keep".
FilterRows(t, keep) ==
    IF Len(t) = 0 THEN <<>>
    ELSE (IF Head(t).id \in keep THEN <<Head(t)>> ELSE <<>>)
             \o FilterRows(Tail(t), keep)

RECURSIVE LocLabels(_, _)
\* df.loc[labels]: for each label in turn, the rows carrying it.
LocLabels(t, labels) ==
    IF Len(labels) = 0 THEN <<>>
    ELSE FilterRows(t, {Head(labels)}) \o LocLabels(t, Tail(labels))

\* A variant that removes no label.
IndexDifference_of_nothing(a, b) == SortedSeq({a[i] : i \in 1..Len(a)})

\* Index.difference(other): the labels of a not in b, unique and sorted.
IndexDifference(a, b) == SortedSeq({a[i] : i \in 1..Len(a)} \ b)

\* A variant that keeps every label of a.
IndexIntersection_all(a, b) == a

RECURSIVE IndexIntersection(_, _)
\* Index.intersection(other): the labels of a also in b, unique, in a's order.
IndexIntersection(a, b) ==
    IF Len(a) = 0 THEN <<>>
    ELSE LET rest == IndexIntersection(SubSeq(a, 1, Len(a) - 1), b)
             x == a[Len(a)]
         IN IF x \in b /\ \A i \in 1..Len(rest) : rest[i] # x
            THEN rest \o <<x>> ELSE rest

\* ------------------------------------------------------- set operators
\* Variants of the operators below, each with one plausible slip.
add_db_keep_duplicates(sdb, odb) == sdb \o odb

sub_db_swapped(sdb, odb) ==
    LocLabels(odb, IndexDifference(IndexOf(odb), Ids(sdb)))

and_db_from_other(sdb, odb) ==
    LocLabels(odb, IndexIntersection(IndexOf(odb), Ids(sdb)))

merge_error_logs_keep_duplicates(serr, oerr) ==
    [shared |-> FALSE, rows |-> serr \o oerr]

\* __add__: other's labels not in self, then concat(self, other.loc[those]).
add_db(sdb, odb) ==
    LET non_duplicates == IndexDifference(IndexOf(odb), Ids(sdb))
    IN sdb \o LocLabels(odb, non_duplicates)

\* __sub__: self.loc[self.index.difference(indices_other)].
sub_db(sdb, odb) ==
    LET remaining_indices == IndexDifference(IndexOf(sdb), Ids(odb))
    IN LocLabels(sdb, remaining_indices)

\* __and__: self.loc[self.index.intersection(indices_other)].
and_db(sdb, odb) ==
    LET common_indices == IndexIntersection(IndexOf(sdb), Ids(odb))
    IN LocLabels(sdb, common_indices)

\* merge_error_logs: the very table of self when both logs are empty (shared),
\* else a new table: self's rows, then other's rows whose label self lacks.
merge_error_logs(serr, oerr) ==
    IF Len(serr) = 0 /\ Len(oerr) = 0
    THEN [shared |-> TRUE, rows |-> serr]
    ELSE [shared |-> FALSE,
          rows |-> serr \o FilterRows(oerr, Ids(oerr) \ Ids(serr))]

\* prepare_for_operations(self, other): the type and schema check every set
\* operator makes first.  "ok" stands for the returned index of other.
prepare_for_operations(self, other) ==
    IF other.type # "BidsArchitecture" THEN "TypeError"
    ELSE IF other.cols # "valid" THEN "ValueError"
    ELSE "ok"

\* ------------------------------------------------------------ the state
Slots == {"A", "B", "R"}

\* The two given indexes; R holds the result of the last call.
Given == {"A", "B"}

Ptrs == 1..(2 * Cardinality(Slots) + 2)

NoObj == [type |-> "none", root |-> FALSE, cols |-> "valid", db |-> 0, err |-> 0]

\* The right-hand operand "invalid" of test_prepare_for_operations_invalid.
StrOperand == [type |-> "str", root |-> FALSE, cols |-> "valid", db |-> 0, err |-> 0]

Obj(root, cols, db, err) ==
    [type |-> "BidsArchitecture", root |-> root, cols |-> cols, db |-> db, err |-> err]

Live(o) == {s \in Slots : o[s].type = "BidsArchitecture"}

\* self._database and self._errors of the object in slot s.
Db(s) == heap[objs[s].db]

Err(s) == heap[objs[s].err]

\* The references still held by some object; the others are collected.
Held(o) == UNION {{o[s].db, o[s].err} : s \in Live(o)}

Collect(o, h) == [p \in (DOMAIN h) \cap Held(o) |-> h[p]]

\* A reference not in h: the smallest one.
Fresh(h) == CHOOSE p \in Ptrs \ DOMAIN h : \A q \in Ptrs \ DOMAIN h : p <= q

Store(h, p, t) == [q \in (DOMAIN h) \cup {p} |-> IF q = p THEN t ELSE h[q]]

NoCall == [op |-> "init", a |-> "A", b |-> "A", out |-> "ok", res |-> "none"]

\* ------------------------------------------------------- input universes
\* Entity values of a row (subject, run); run may be missing.
RowVals ==
    { [subject |-> <<"1">>, run |-> <<"1">>],
      [subject |-> <<"0", "2">>, run |-> <<"1">>] }

ErrTypes == {"BidsValidationError", "ValueError"}

MkRow(i, v) == [id |-> i, subject |-> v.subject, run |-> v.run]

MkErr(i, e) == [id |-> i, error_type |-> e]

\* All tables with rows from R and unique labels.
TablesOf(R) ==
    UNION { {t \in [1..n -> R] : UniqueIds(t)} : n \in 0..MaxId }

DbTables == TablesOf({MkRow(i, v) : i \in 1..MaxId, v \in RowVals})

ErrTables == TablesOf({MkErr(i, e) : i \in 1..MaxId, e \in ErrTypes})

\* The tables of the left operand: one version of each row.  The set operators
\* read labels only, and the right operand ranges over every version, so each
\* shared label occurs with equal rows and with different rows.
DbTablesA == {t \in DbTables : \A i \in 1..Len(t) : t[i].subject = <<"1">>}

ErrTablesA == {t \in ErrTables : \A i \in 1..Len(t) : t[i].error_type = "ValueError"}

\* A table whose columns are not the required ones.
InvalidTable == <<[id |-> 1, invalid_col |-> <<"1">>]>>

\* --------------------------------------------------------- set algebra
SetOps == {"add", "sub", "and"}

op_db(op, sdb, odb) ==
    CASE op = "add" -> add_db(sdb, odb)
      [] op = "sub" -> sub_db(sdb, odb)
      [] op = "and" -> and_db(sdb, odb)

Operand(b) == IF b = "str" THEN StrOperand ELSE objs[b]

\* SetOp without the check of the operands.
SetOp_unchecked(op, a, b) ==
    /\ last.op = "init"
    /\ a \in Live(objs) \cap Given
    /\ b \in (Live(objs) \cap Given) \cup {"str"}
    /\ LET chk == prepare_for_operations(objs[a], Operand(b))
           odb == IF b = "str" THEN <<>> ELSE Db(b)
           pdb == Fresh(heap)
           h1 == Store(heap, pdb, op_db(op, Db(a), odb))
           perr == Fresh(h1)
           o2 == [objs EXCEPT !["R"] = Obj(FALSE, "valid", pdb, perr)]
       IN /\ objs' = o2
          /\ heap' = Store(h1, perr, Err(a))
          /\ last' = [op |-> op, a |-> a, b |-> b, out |-> chk,
                      res |-> IF chk = "ok" THEN "R" ELSE "none"]
    /\ UNCHANGED <<fs, kw>>

\* r = a + b, r = a - b, r = a & b: the check, then a new instance holding the
\* combined file table and the merged error log.  A run makes one such call on
\* the two given indexes.
SetOp(op, a, b) ==
    /\ last.op = "init"
    /\ a \in Live(objs) \cap Given
    /\ b \in (Live(objs) \cap Given) \cup {"str"}
    /\ LET chk == prepare_for_operations(objs[a], Operand(b))
       IN IF chk # "ok"
          THEN /\ last' = [op |-> op, a |-> a, b |-> b, out |-> chk, res |-> "none"]
               /\ UNCHANGED <<objs, heap>>
          ELSE LET combined == op_db(op, Db(a), Db(b))
                   merged == merge_error_logs(Err(a), Err(b))
                   h0 == Collect([objs EXCEPT !["R"] = NoObj], heap)
                   pdb == Fresh(h0)
                   h1 == Store(h0, pdb, combined)
                   perr == IF merged.shared THEN objs[a].err ELSE Fresh(h1)
                   h2 == Store(h1, perr, merged.rows)
                   o2 == [objs EXCEPT !["R"] = Obj(FALSE, "valid", pdb, perr)]
               IN /\ objs' = o2
                  /\ heap' = Collect(o2, h2)
                  /\ last' = [op |-> op, a |-> a, b |-> b, out |-> "ok", res |-> "R"]
    /\ UNCHANGED <<fs, kw>>

Add == \E a \in Given, b \in Given \cup {"str"} : SetOp("add", a, b)

Sub == \E a \in Given, b \in Given \cup {"str"} : SetOp("sub", a, b)

And == \E a \in Given, b \in Given \cup {"str"} : SetOp("and", a, b)

\* The client changes a table in place through the reference an object holds
\* (df.loc[label] = row, label not yet in the table): the row is appended.
MarkId == MaxId + 1

Marker(f) ==
    IF f = "db" THEN MkRow(MarkId, CHOOSE v \in RowVals : TRUE)
    ELSE MkErr(MarkId, "ValueError")

Mutate ==
    \E s \in Slots, f \in {"db", "err"} :
        /\ s \in Live(objs)
        /\ last.op \in SetOps \cup {"select", "remove"} /\ last.out = "ok"
        /\ LET p == objs[s][f]
           IN /\ MarkId \notin Ids(heap[p])
              /\ heap' = [heap EXCEPT ![p] = Append(heap[p], Marker(f))]
        /\ last' = [op |-> "mutate", a |-> s, b |-> f, out |-> "ok", res |-> "none"]
        /\ UNCHANGED <<objs, fs, kw>>

\* Two indexes A and B, each with a file table and an error log.
InitAlgObjs(adb, aerr, bcols, bdb, berr) ==
    /\ objs = [s \in Slots |->
                 CASE s = "A" -> Obj(FALSE, "valid", 1, 2)
                   [] s = "B" -> Obj(FALSE, bcols, 3, 4)
                   [] OTHER -> NoObj]
    /\ heap = [p \in 1..4 |->
                 CASE p = 1 -> adb [] p = 2 -> aerr [] p = 3 -> bdb [] OTHER -> berr]

InitAlg ==
    /\ \/ \E adb \in DbTablesA, bdb \in DbTables :
             InitAlgObjs(adb, <<>>, "valid", bdb, <<>>)
       \/ \E aerr \in ErrTablesA, berr \in ErrTables :
             InitAlgObjs(<<>>, aerr, "valid", <<>>, berr)
       \/ \E adb \in DbTablesA :
             InitAlgObjs(adb, <<>>, "invalid", InvalidTable, <<>>)
    /\ fs = <<>>
    /\ kw = <<>>
    /\ last = NoCall

NextAlg == Add \/ Sub \/ And \/ Mutate

SpecAlg == InitAlg /\ [][NextAlg]_vars

\* ------------------------------------------------------------ selection
\* The entity columns select and remove accept (valid_keys).
valid_keys ==
    {"subject", "session", "datatype", "task", "run", "acquisition",
     "description", "suffix", "extension"}

\* A criterion value: a string, a list of values, or None.
Str(x) == [kind |-> "str", s |-> x, l |-> {}]

List(S) == [kind |-> "list", s |-> <<>>, l |-> S]

NoneCrit == [kind |-> "none", s |-> <<>>, l |-> {}]

Crit(key, value) == [key |-> key, val |-> value]

\* self._database[key]: the column, as the list of its values.
Column(db, key) == [i \in 1..Len(db) |-> db[i][key]]

\* _is_numerical: all(col.apply(lambda x: str(x).isdigit())); str(None) is
\* "None", no digit string, and all() of an empty column is True.
str(x) == IF x = None THEN <<"N", "o", "n", "e">> ELSE x

_is_numerical(col) == \A i \in 1..Len(col) : isdigit(str(col[i]))

\* pd.to_numeric of the column, then its min() and max() (0 stands for the
\* NaN of an empty column: no row is compared with it).
col_min(col) ==
    IF Len(col) = 0 THEN 0
    ELSE CHOOSE m \in {int(col[i]) : i \in 1..Len(col)} :
             \A i \in 1..Len(col) : m <= int(col[i])

col_max(col) ==
    IF Len(col) = 0 THEN 0
    ELSE CHOOSE m \in {int(col[i]) : i \in 1..Len(col)} :
             \A i \in 1..Len(col) : m >= int(col[i])

\* The labels of the rows with start <= int(value) <= stop; "*" stands for the
\* column's minimum or maximum.
range_inodes(db, key, start, stop) ==
    LET col == Column(db, key)
        start_val == IF isdigit(start) THEN int(start) ELSE col_min(col)
        stop_val == IF isdigit(stop) THEN int(stop) ELSE col_max(col)
    IN {db[i].id : i \in {j \in 1..Len(db) :
            int(col[j]) >= start_val /\ int(col[j]) <= stop_val}}

\* set(self._database[col == value].index)
equal_inodes(db, key, value) ==
    {db[i].id : i \in {j \in 1..Len(db) : db[j][key] = value}}

\* A variant of isin in which a missing value is a member of no list.
isin_inodes_no_missing(db, key, values) ==
    {db[i].id : i \in {j \in 1..Len(db) : db[j][key] \in values \ {None}}}

\* set(self._database[self._database[key].isin(value)].index)
isin_inodes(db, key, values) ==
    {db[i].id : i \in {j \in 1..Len(db) : db[j][key] \in values}}

\* One turn of the loop of _create_mask over kwargs.items(): the labels still
\* valid after the criterion, or the error it raises.
apply_criterion(db, valid_inodes, c) ==
    LET value == strip(c.val.s)
        col == Column(db, c.key)
        parts == split(value)
    IN CASE c.val.kind = "none" -> [out |-> "ok", keep |-> valid_inodes]
         [] c.val.kind = "list" ->
              [out |-> "ok", keep |-> valid_inodes \cap isin_inodes(db, c.key, c.val.l)]
         [] OTHER ->
              IF Len(value) = 0 THEN [out |-> "ok", keep |-> valid_inodes]
              ELSE IF HasHyphen(value) /\ _is_numerical(col)
              THEN IF \/ Len(parts) # 2
                      \/ ~(isdigit(parts[1]) \/ parts[1] = <<"*">>)
                      \/ ~(isdigit(parts[2]) \/ parts[2] = <<"*">>)
                   THEN [out |-> "ValueError", keep |-> {},
                         msg |-> [text |-> "Input must be digits", keys |-> {}]]
                   ELSE [out |-> "ok",
                         keep |-> (valid_inodes
                                     \cap range_inodes(db, c.key, parts[1], parts[2]))
                                     \cap equal_inodes(db, c.key, value)]
              ELSE [out |-> "ok",
                    keep |-> valid_inodes \cap equal_inodes(db, c.key, value)]

RECURSIVE mask_loop(_, _, _)
mask_loop(db, valid_inodes, kwargs) ==
    IF Len(kwargs) = 0 THEN [out |-> "ok", keep |-> valid_inodes]
    ELSE LET r == apply_criterion(db, valid_inodes, Head(kwargs))
         IN IF r.out # "ok" THEN r ELSE mask_loop(db, r.keep, Tail(kwargs))

\* set(kwargs.keys()) - valid_keys
invalid_keys(kwargs) == {kwargs[i].key : i \in 1..Len(kwargs)} \ valid_keys

\* A variant of _create_mask that drops the criteria on unknown keys instead
\* of raising.
_create_mask_skip_invalid(db, kwargs) ==
    mask_loop(db, Ids(db), SelectSeq(kwargs, LAMBDA c : c.key \in valid_keys))

\* _create_mask(**kwargs): the labels the mask keeps, or the error raised
\* with its message.
_create_mask(db, kwargs) ==
    IF invalid_keys(kwargs) # {}
    THEN [out |-> "ValueError", keep |-> {},
          msg |-> [text |-> "Invalid selection keys", keys |-> invalid_keys(kwargs)]]
    ELSE mask_loop(db, Ids(db), kwargs)

\* A variant in which remove keeps the rows of the mask, as select does.
masked_never_inverted(db, keep, m) == FilterRows(db, m.keep)

\* The table select (keep = TRUE) or remove (keep = FALSE) leaves.
masked(db, keep, m) ==
    IF keep THEN FilterRows(db, m.keep) ELSE FilterRows(db, Ids(db) \ m.keep)

\* ------------------------------------------------------------ the build
\* A variant of the scan that gives every candidate a row of the file table.
scan_db_every_candidate(files) ==
    LET kept == SelectSeq(files, LAMBDA f : ~f.test)
    IN [i \in 1..Len(kept) |->
           [id |-> kept[i].inode, subject |-> kept[i].subject, run |-> kept[i].run]]

\* create_database: every candidate whose name does not contain "test" goes to
\* the file table if it validates (ok) and parses, to the error log otherwise.
RECURSIVE scan_db(_)
scan_db(files) ==
    IF Len(files) = 0 THEN <<>>
    ELSE LET f == Head(files)
         IN (IF ~f.test /\ f.ok /\ f.parses
             THEN <<[id |-> f.inode, subject |-> f.subject, run |-> f.run]>>
             ELSE <<>>) \o scan_db(Tail(files))

RECURSIVE scan_errors(_)
scan_errors(files) ==
    IF Len(files) = 0 THEN <<>>
    ELSE LET f == Head(files)
         IN (IF ~f.test /\ ~(f.ok /\ f.parses)
             THEN <<MkErr(f.inode, IF ~f.ok THEN "BidsValidationError"
                                   ELSE "ValueError")>>
             ELSE <<>>) \o scan_errors(Tail(files))

\* The object in slot s after create_database, and the heap with its two new
\* tables.
Built(s) ==
    LET o0 == [objs EXCEPT ![s] = [@ EXCEPT !.db = 0, !.err = 0]]
        h0 == Collect(o0, heap)
        pdb == Fresh(h0)
        h1 == Store(h0, pdb, scan_db(fs))
        perr == Fresh(h1)
    IN [objs |-> [objs EXCEPT ![s] = [@ EXCEPT !.db = pdb, !.err = perr]],
        heap |-> Store(h1, perr, scan_errors(fs))]

Call(op, a, b, out, res) == [op |-> op, a |-> a, b |-> b, out |-> out, res |-> res]

\* A run of the selection harness: one select or remove call on A, then one
\* read of an accessor, one explicit build, or one write in place to a table,
\* of A or of the returned index.
\* The record of a read or build names in b the call that came before it.
CanRead == last.op \in {"init", "select", "remove"}

\* index.create_database(), called by the client.
CreateDatabase ==
    \E s \in {"A", "R"} :
        /\ CanRead
        /\ s \in Live(objs)
        /\ IF ~objs[s].root
           THEN /\ last' = Call("create_database", s, last.op, "ValueError", "none")
                /\ UNCHANGED <<objs, heap>>
           ELSE /\ objs' = Built(s).objs
                /\ heap' = Built(s).heap
                /\ last' = Call("create_database", s, last.op, "ok", s)
        /\ UNCHANGED <<fs, kw>>

\* index.database: an implicit create_database when the file table is empty
\* and a root is set; then the file table.  Reference 0 stands for an
\* attribute that was never set: reading it ends in an AttributeError.
ReadDatabase ==
    \E s \in {"A", "R"} :
        /\ CanRead
        /\ s \in Live(objs)
        /\ IF objs[s].db = 0
           THEN /\ last' = Call("database", s, last.op, "AttributeError", "none")
                /\ UNCHANGED <<objs, heap>>
           ELSE /\ IF Len(Db(s)) = 0 /\ objs[s].root
                   THEN objs' = Built(s).objs /\ heap' = Built(s).heap
                   ELSE UNCHANGED <<objs, heap>>
                /\ last' = Call("database", s, last.op, "ok", s)
        /\ UNCHANGED <<fs, kw>>

\* index.errors: an implicit create_database when the error log is empty and
\* a root is set; then the error log.
read_errors(op) ==
    \E s \in {"A", "R"} :
        /\ CanRead
        /\ s \in Live(objs)
        /\ IF objs[s].err = 0
           THEN /\ last' = Call(op, s, last.op, "AttributeError", "none")
                /\ UNCHANGED <<objs, heap>>
           ELSE /\ IF Len(Err(s)) = 0 /\ objs[s].root
                   THEN objs' = Built(s).objs /\ heap' = Built(s).heap
                   ELSE UNCHANGED <<objs, heap>>
                /\ last' = Call(op, s, last.op, "ok", s)
        /\ UNCHANGED <<fs, kw>>

ReadErrors == read_errors("errors")

\* index.print_errors_log(): it reads self.errors, and prints; a second read
\* of the accessor finds the tables the first one left.
PrintErrorsLog == read_errors("print_errors_log")

\* A variant of the copy that shares the table it was to copy.
shared_ref(p, fresh) == p

\* copy.deepcopy(self): each table of the copy is a new object, not the
\* receiver's table p.
deepcopy_ref(p, fresh) == fresh

\* select(inplace, **kw) for keep = TRUE, remove(inplace, **kw) for FALSE: the
\* mask; then either the receiver's file table is replaced, or a deep copy of
\* the receiver is made and its file table replaced.
Filter(op, keep, s, inplace) ==
    /\ last.op = "init"
    /\ s \in Live(objs)
    /\ LET m == _create_mask(Db(s), kw)
           mode == IF inplace THEN "inplace" ELSE "copy"
       IN IF m.out # "ok"
          THEN /\ last' = Call(op, s, mode, m.out, "none") @@ [msg |-> m.msg]
               /\ UNCHANGED <<objs, heap>>
          ELSE LET t == masked(Db(s), keep, m)
                   e == Err(s)
                   tgt == IF inplace THEN s ELSE "R"
                   o0 == IF inplace THEN [objs EXCEPT ![s] = [@ EXCEPT !.db = 0]]
                         ELSE [objs EXCEPT !["R"] = NoObj]
                   h0 == Collect(o0, heap)
                   pdb == Fresh(h0)
                   h1 == Store(h0, pdb, t)
                   perr == IF inplace THEN objs[s].err
                           ELSE deepcopy_ref(objs[s].err, Fresh(h1))
                   h2 == Store(h1, perr, e)
                   o2 == [objs EXCEPT ![tgt] = Obj(objs[s].root, objs[s].cols, pdb, perr)]
               IN /\ objs' = o2
                  /\ heap' = Collect(o2, h2)
                  /\ last' = Call(op, s, mode, "ok", tgt)
    /\ UNCHANGED <<fs, kw>>

Select == \E inplace \in BOOLEAN : Filter("select", TRUE, "A", inplace)

Remove == \E inplace \in BOOLEAN : Filter("remove", FALSE, "A", inplace)

\* Entity values of the rows to select from: subject is a digit string in
\* every row, run is missing in some.
SelVals == RowVals \cup {[subject |-> <<"3">>, run |-> None]}

\* Tables in scan order: labels increasing.
SelTables ==
    {t \in TablesOf({MkRow(i, v) : i \in 1..MaxId, v \in SelVals}) :
        \A i, j \in 1..Len(t) : i < j => t[i].id < t[j].id}

\* Criterion values by column.
SubjectPairCrits ==
    { Str(<<"1">>), Str(<<"9">>), Str(<<"1", "-", "2">>), Str(<<"a", "-", "1">>),
      List({<<"1">>, <<"3">>}), NoneCrit }

SubjectCrits ==
    SubjectPairCrits \cup
    { Str(<<"2", "-", "*">>), Str(<<"*", "-", "2">>), Str(<<>>), List({}) }

RunCrits ==
    { Str(<<"1">>), Str(<<"1", "-", "1">>), Str(<<"a", "-", "1">>),
      List({None, <<"1">>}), List({None}) }

\* The keyword arguments of the run's select and remove calls.
KwSet ==
    {<<Crit("subject", x)>> : x \in SubjectCrits}
        \cup {<<Crit("run", y)>> : y \in RunCrits}
        \cup {<<Crit("subject", x), Crit("run", y)>> : x \in SubjectPairCrits, y \in RunCrits}
        \cup {<<Crit("bogus", Str(<<"1">>))>>,
              <<Crit("subject", Str(<<"1">>)), Crit("bogus", Str(<<"1">>))>>}

\* The files under the root that give table t when scanned, followed by the
\* extra candidates.
FilesOf(t) ==
    [i \in 1..Len(t) |->
        [inode |-> t[i].id, test |-> FALSE, ok |-> TRUE, parses |-> TRUE,
         subject |-> t[i].subject, run |-> t[i].run]]

ExtraFile(ok, test) ==
    [inode |-> MarkId + 1, test |-> test, ok |-> ok, parses |-> TRUE,
     subject |-> <<"1">>, run |-> None]

\* A candidate that passes validate_bids_file and fails BidsPath.from_filename.
UnparsableFile == [ExtraFile(TRUE, FALSE) EXCEPT !.parses = FALSE]

ExtraFiles ==
    {<<>>, <<ExtraFile(FALSE, FALSE)>>, <<ExtraFile(TRUE, TRUE)>>, <<UnparsableFile>>}

\* One index A: BidsArchitecture(root), built from the files under the root,
\* or BidsArchitecture() with its file table assigned.
InitSel ==
    /\ \E t \in SelTables :
          \/ \E x \in ExtraFiles :
                /\ fs = FilesOf(t) \o x
                /\ objs = [s \in Slots |->
                             IF s = "A" THEN Obj(TRUE, "valid", 1, 2) ELSE NoObj]
                /\ heap = <<scan_db(fs), scan_errors(fs)>>
          \/ /\ fs = <<>>
             /\ objs = [s \in Slots |->
                          IF s = "A" THEN Obj(FALSE, "valid", 1, 2) ELSE NoObj]
             /\ heap = <<t, <<>>>>
    /\ kw \in KwSet
    /\ last = NoCall

NextSel ==
    Select \/ Remove \/ ReadDatabase \/ ReadErrors \/ PrintErrorsLog
        \/ CreateDatabase \/ Mutate

SpecSel == InitSel /\ [][NextSel]_vars

\* ------------------------------------------------- unique-value accessors
\* ord(c) of a digit.
ord(c) == 48 + DigitVal(c)

\* x < y of two str: by code point at the first difference, a proper prefix
\* first.
str_lt(x, y) ==
    \E k \in 1..(Len(x) + 1) :
        /\ \A i \in 1..(k - 1) : i <= Len(y) /\ x[i] = y[i]
        /\ k <= Len(y)
        /\ k <= Len(x) => ord(x[k]) < ord(y[k])

\* l without its i-th element.
del(l, i) == [j \in 1..(Len(l) - 1) |-> IF j < i THEN l[j] ELSE l[j + 1]]

\* sorted(l): ascending and stable.
RECURSIVE sorted(_)
sorted(l) ==
    IF l = <<>> THEN <<>>
    ELSE LET i == CHOOSE i \in 1..Len(l) :
                     \A j \in 1..Len(l) :
                        /\ ~str_lt(l[j], l[i])
                        /\ j < i => str_lt(l[i], l[j])
         IN <<l[i]>> \o sorted(del(l, i))

\* Series.unique(): the distinct values in order of first appearance.
unique(col) ==
    LET first == {i \in 1..Len(col) : \A j \in 1..(i - 1) : col[j] # col[i]}
    IN [k \in 1..Cardinality(first) |->
          col[CHOOSE i \in first : Cardinality({j \in first : j <= i}) = k]]

\* The list comprehension of _get_unique_values: elem is not None.
not_none(l) == SelectSeq(l, LAMBDA elem : elem # None)

\* A variant that returns the values in order of appearance.
_get_unique_values_unsorted(db, column) == not_none(unique(Column(db, column)))

\* _get_unique_values(column).
_get_unique_values(db, column) == sorted(not_none(unique(Column(db, column))))

\* The columns read in the model by the properties subjects and runs.
UniqueColumns == {"subject", "run"}

\* index.subjects, index.runs: _get_unique_values on self._database, with no
\* implicit build.
ReadUnique ==
    \E s \in {"A", "R"}, column \in UniqueColumns :
        /\ CanRead
        /\ s \in Live(objs)
        /\ last' = IF objs[s].db = 0
                   THEN Call("unique", s, column, "AttributeError", "none")
                   ELSE Call("unique", s, column, "ok", "none")
                           @@ [value |-> _get_unique_values(Db(s), column)]
        /\ UNCHANGED <<objs, heap, fs, kw>>

\* ------------------------------------------------- a new index and reads
\* BidsArchitecture(): __init__ sets root and, only when a root is given,
\* builds the tables; with no root it sets neither _database nor _errors.
NewIndex == Obj(FALSE, "valid", 0, 0)

\* One index A right after construction, with or without a root, or an index
\* without a root whose tables were assigned.
InitNew ==
    /\ \/ \E t \in SelTables : \E x \in ExtraFiles :
             /\ fs = FilesOf(t) \o x
             /\ objs = [s \in Slots |->
                          IF s = "A" THEN Obj(TRUE, "valid", 1, 2) ELSE NoObj]
             /\ heap = <<scan_db(fs), scan_errors(fs)>>
       \/ \E t \in SelTables :
             /\ fs = <<>>
             /\ objs = [s \in Slots |->
                          IF s = "A" THEN Obj(FALSE, "valid", 1, 2) ELSE NoObj]
             /\ heap = <<t, <<>>>>
       \/ /\ fs = <<>>
          /\ objs = [s \in Slots |-> IF s = "A" THEN NewIndex ELSE NoObj]
          /\ heap = <<>>
    /\ kw \in KwSet
    /\ last = NoCall

NextNew == ReadDatabase \/ ReadErrors \/ CreateDatabase \/ ReadUnique

SpecNew == InitNew /\ [][NextNew]_vars

\* ------------------------------------------------------ chains of calls
\* a = r: the client goes on with the index the last call returned (or with
\* the receiver after a call in place) and makes its next call on it.
Rebind ==
    /\ last.op # "init"
    /\ IF last.res = "R"
       THEN LET o2 == [objs EXCEPT !["A"] = objs["R"], !["R"] = NoObj]
            IN objs' = o2 /\ heap' = Collect(o2, heap)
       ELSE UNCHANGED <<objs, heap>>
    /\ last' = NoCall
    /\ UNCHANGED <<fs, kw>>

\* The criterion of the chains.
SeqKw == <<Crit("subject", List({<<"1">>, <<"3">>}))>>

\* The row of label i in the index built from the files, and in the other
\* index.
SeqRowA(i) ==
    MkRow(i, CASE i = 1 -> [subject |-> <<"1">>, run |-> <<"1">>]
               [] i = 2 -> [subject |-> <<"0", "2">>, run |-> <<"1">>]
               [] OTHER -> [subject |-> <<"3">>, run |-> None])

SeqRowB(i) == MkRow(i, [subject |-> <<"0", "2">>, run |-> <<"1">>])

\* An index A built from the files under its root and an index B with an
\* assigned file table; the labels of each are any set of labels.
InitSeq ==
    /\ \E la, lb \in SUBSET (1..MaxId) :
          /\ fs = FilesOf([k \in 1..Cardinality(la) |-> SeqRowA(SortedSeq(la)[k])])
          /\ objs = [s \in Slots |->
                       CASE s = "A" -> Obj(TRUE, "valid", 1, 2)
                         [] s = "B" -> Obj(FALSE, "valid", 3, 4)
                         [] OTHER -> NoObj]
          /\ heap = <<scan_db(fs), scan_errors(fs),
                      [k \in 1..Cardinality(lb) |-> SeqRowB(SortedSeq(lb)[k])],
                      <<>>>>
    /\ kw = SeqKw
    /\ last = NoCall

NextSeq ==
    Add \/ Sub \/ And \/ Select \/ Remove \/ CreateDatabase \/ Rebind

SpecSeq == InitSeq /\ [][NextSeq]_vars

\* ---------------------------------------------------------- validation
\* validate_bids_file(file) of core/validation.py.  A path is its parent's
\* components, the parts of its stem between "_", and whether it has a suffix.
Lower == {"a", "b", "c", "d", "e", "f", "g", "h", "i", "j", "k", "l", "m", "n", "o", "p", "q", "r", "s", "t", "u", "v", "w", "x", "y", "z"}

Upper == {"A", "B", "C", "D", "E", "F", "G", "H", "I", "J", "K", "L", "M", "N", "O", "P", "Q", "R", "S", "T", "U", "V", "W", "X", "Y", "Z"}

Alnum == Lower \cup Upper \cup Digits

\* \w of the re module.
Word == Alnum \cup {"_"}

\* s.startswith(p)
startswith(s, p) == Len(s) >= Len(p) /\ SubSeq(s, 1, Len(p)) = p

\* "_".join(parts)
RECURSIVE join(_)
join(parts) ==
    IF Len(parts) = 1 THEN parts[1]
    ELSE parts[1] \o <<"_">> \o join(Tail(parts))

\* part.split("-", 1) of a part with a hyphen: the text before the first
\* hyphen, and all the text after it.
first_hyphen(s) == CHOOSE k \in 1..Len(s) : s[k] = "-" /\ \A j \in 1..(k - 1) : s[j] # "-"

before_hyphen(s) == SubSeq(s, 1, first_hyphen(s) - 1)

after_hyphen(s) == SubSeq(s, first_hyphen(s) + 1, Len(s))

\* re.compile(r"^[a-z0-9]+$").match(s)
valid_datatype_pattern(s) ==
    Len(s) > 0 /\ \A i \in 1..Len(s) : s[i] \in Lower \cup Digits

\* re.compile(r"(sub|ses)-[\w\d]+").match(s): a match of a prefix of s.
path_pattern(s) ==
    /\ startswith(s, <<"s", "u", "b", "-">>) \/ startswith(s, <<"s", "e", "s", "-">>)
    /\ Len(s) >= 5
    /\ s[5] \in Word

\* The longest prefix of s made of alphanumeric characters (its length).
alnum_prefix(s) ==
    CHOOSE n \in 0..Len(s) :
        /\ \A i \in 1..n : s[i] \in Alnum
        /\ n < Len(s) => s[n + 1] \notin Alnum

\* re.compile(r"(?P<key>[a-zA-Z0-9]+)-(?P<value>[a-zA-Z0-9]+)").match(s): a
\* match of a prefix of s, with its key group.
key_value_pattern(s) ==
    LET n == alnum_prefix(s)
    IN IF n >= 1 /\ Len(s) >= n + 2 /\ s[n + 1] = "-" /\ s[n + 2] \in Alnum
       THEN [match |-> TRUE, key |-> SubSeq(s, 1, n)]
       ELSE [match |-> FALSE, key |-> <<>>]

\* The entity keys a filename may carry (valid_keys of validate_bids_file).
valid_entity_keys ==
    { <<"s", "u", "b">>, <<"s", "e", "s">>, <<"t", "a", "s", "k">>,
      <<"a", "c", "q">>, <<"r", "u", "n">>,
      <<"r", "e", "c", "o", "r", "d", "i", "n", "g">>,
      <<"d", "e", "s", "c">>, <<"s", "p", "a", "c", "e">> }

\* One reason of the errors list.
Reason(kind, a, b) == [kind |-> kind, a |-> a, b |-> b]

\* filename_entities: the value after the first hyphen of the last stem part
\* whose text before the first hyphen is key; None when there is none.
filename_entity(stem, key) ==
    LET at == {i \in 1..Len(stem) : HasHyphen(stem[i]) /\ before_hyphen(stem[i]) = key}
    IN IF at = {} THEN None
       ELSE after_hyphen(stem[CHOOSE i \in at : \A j \in at : j <= i])

\* part.split("-")[1] if "-" in part else None
path_entity(part) == IF HasHyphen(part) THEN split(part)[2] ELSE None

\* The reasons of the loop over the stem parts but the last.
RECURSIVE name_errors(_)
name_errors(parts) ==
    IF Len(parts) <= 1 THEN <<>>
    ELSE LET m == key_value_pattern(parts[1])
         IN (IF ~m.match THEN <<Reason("Invalid format", parts[1], <<>>)>>
             ELSE IF m.key \notin valid_entity_keys
             THEN <<Reason("Invalid key", m.key, <<>>)>>
             ELSE <<>>) \o name_errors(Tail(parts))

\* The reason appended when the path and the filename both carry the entity
\* and the two values differ.
mismatch_errors(kind, path_value, stem, key) ==
    IF /\ path_value # None
       /\ Len(path_value) > 0
       /\ filename_entity(stem, key) # None
       /\ path_value # filename_entity(stem, key)
    THEN <<Reason(kind, path_value, filename_entity(stem, key))>>
    ELSE <<>>

\* The last n components of parts (parts[-n:]).
last_parts(parts, n) ==
    IF Len(parts) <= n THEN parts ELSE SubSeq(parts, Len(parts) - n + 1, Len(parts))

\* bids_path_parts: file.parent.parts[-3:] of a path with a suffix,
\* file.parent.parts[-2:] of one without.
bids_path_parts(file) == last_parts(file.parent, IF file.suffix THEN 3 ELSE 2)

\* not any(conditions): the path has none of the marks of a BIDS path.
no_bids_elements(file) ==
    LET parts == bids_path_parts(file)
    IN /\ file.suffix
       /\ ~startswith(parts[1], <<"s", "u", "b">>)
       /\ ~startswith(parts[3], <<"s", "e", "s">>)
       /\ ~HasHyphen(parts[1])
       /\ ~HasHyphen(parts[3])

\* The errors list once every check has appended its reasons.
accumulated_errors(file) ==
    LET parts == bids_path_parts(file)
        datatype == IF file.suffix THEN file.parent[Len(file.parent)]
                    ELSE join(file.stem)
    IN (IF Len(datatype) > 0 /\ ~valid_datatype_pattern(datatype)
        THEN <<Reason("Invalid datatype", datatype, <<>>)>> ELSE <<>>)
       \o (IF ~path_pattern(parts[1])
           THEN <<Reason("Invalid path component", parts[1], <<>>)>> ELSE <<>>)
       \o (IF ~path_pattern(parts[2])
           THEN <<Reason("Invalid path component", parts[2], <<>>)>> ELSE <<>>)
       \o (IF file.suffix THEN name_errors(file.stem) ELSE <<>>)
       \o mismatch_errors("Subject mismatch", path_entity(parts[1]),
                          file.stem, <<"s", "u", "b">>)
       \o mismatch_errors("Session mismatch", path_entity(parts[2]),
                          file.stem, <<"s", "e", "s">>)

\* The reason of the failure raised at once for a path with no BIDS element.
NoBidsElements == Reason("Path does not contain valid BIDS elements", <<>>, <<>>)

\* validate_bids_file(file): the outcome, and the reasons of the failure.  A
\* parent with too few components ends the call with an IndexError.
validate_bids_file(file) ==
    IF Len(bids_path_parts(file)) < (IF file.suffix THEN 3 ELSE 2)
    THEN [out |-> "IndexError", errors |-> <<>>]
    ELSE IF no_bids_elements(file)
    THEN [out |-> "BidsValidationError", errors |-> <<NoBidsElements>>]
    ELSE IF Len(accumulated_errors(file)) > 0
    THEN [out |-> "BidsValidationError", errors |-> accumulated_errors(file)]
    ELSE [out |-> "ok", errors |-> <<>>]

\* validate_bids_file called on the candidate path.
ValidateFile ==
    /\ last.op = "init"
    /\ Len(fs) = 1
    /\ "parent" \in DOMAIN fs[1]
    /\ LET r == validate_bids_file(fs[1])
       IN last' = Call("validate_bids_file", "-", "-", r.out, "none")
                      @@ [errors |-> r.errors]
    /\ UNCHANGED <<objs, heap, fs, kw>>

\* The most entity parts a stem of the candidate has before its last part.
MaxEntities == 2

\* Path components and stem parts the candidates are made of.
FirstComponents == {<<"s", "u", "b", "-", "1">>, <<"s", "u", "b", "-", "2">>, <<"s", "e", "s", "-", "1">>, <<"b", "a", "d">>, <<"s", "a", "b", "-", "1">>}

SecondComponents == {<<"s", "e", "s", "-", "1">>, <<"s", "e", "s", "-", "2">>, <<"s", "u", "b", "-", "1">>, <<"s", "e", "s", "1">>}

Datatypes == {<<"e", "e", "g">>, <<"E", "e", "g">>, <<"s", "e", "s", "-", "1">>}

Parents ==
    {<<a, b, c>> : a \in FirstComponents, b \in SecondComponents, c \in Datatypes}
        \cup {<<<<"s", "u", "b", "-", "1">>, <<"s", "e", "s", "-", "1">>>>, <<<<"s", "u", "b", "-", "1">>, <<"e", "e", "g">>>>}

EntityParts ==
    {<<"s", "u", "b", "-", "1">>, <<"s", "u", "b", "-", "2">>, <<"s", "e", "s", "-", "1">>, <<"s", "e", "s", "-", "2">>, <<"t", "a", "s", "k", "-", "a">>, <<"s", "u", "s", "-", "1">>, <<"s", "e", "s", "1">>, <<"t", "a", "s", "k", "-", "a", "@">>}

Stems ==
    UNION { {e \o <<<<"e", "e", "g">>>> : e \in [1..n -> EntityParts]} : n \in 0..MaxEntities }

\* One candidate path, not yet validated.
InitVal ==
    /\ \E parent \in Parents, stem \in Stems, suffix \in BOOLEAN :
           fs = <<[parent |-> parent, stem |-> stem, suffix |-> suffix]>>
    /\ objs = [s \in Slots |-> NoObj]
    /\ heap = <<>>
    /\ kw = <<>>
    /\ last = NoCall

NextVal == ValidateFile

SpecVal == InitVal /\ [][NextVal]_vars

\* ------------------------------------------------------------ query globs
\* BidsQuery of paths/query.py.  A query is the record of its fields after
\* construction; a field not given is None.
QueryFields ==
    {"subject", "session", "datatype", "space", "task", "acquisition", "run",
     "recording", "description", "suffix", "extension"}

\* s.replace(old, new): every occurrence of old, left to right, not
\* overlapping.
RECURSIVE replace(_, _, _)
replace(s, old, new) ==
    IF Len(s) < Len(old) THEN s
    ELSE IF startswith(s, old)
         THEN new \o replace(SubSeq(s, Len(old) + 1, Len(s)), old, new)
         ELSE <<s[1]>> \o replace(Tail(s), old, new)

Star == <<"*">>

\* self.x or '*'
or_star(v) == IF v = None \/ v = <<>> THEN Star ELSE v

\* _format_mandatory_attrs
_format_mandatory_attrs(q) ==
    join(<<<<"s", "u", "b", "-">> \o or_star(q.subject),
           <<"s", "e", "s", "-">> \o or_star(q.session)>>)

\* optional_attrs of _build_query_filename.
optional_attrs ==
    <<"space", "task", "acquisition", "run", "recording", "description">>

\* _all_optional_exist
_all_optional_exist(q) ==
    \/ q.space # None
    \/ \A i \in 1..Len(optional_attrs) :
          optional_attrs[i] # "space" => q[optional_attrs[i]] # None

\* string_key_reference of _format_optional_attrs.
string_key_reference(attr) ==
    CASE attr = "task" -> <<"t", "a", "s", "k", "-">>
      [] attr = "acquisition" -> <<"a", "c", "q", "-">>
      [] attr = "run" -> <<"r", "u", "n", "-">>
      [] attr = "recording" -> <<"r", "e", "c", "o", "r", "d", "i", "n", "g", "-">>
      [] attr = "description" -> <<"d", "e", "s", "c", "-">>

\* _format_optional_attrs: the condition of the comprehension tests the name
\* of the attribute, so every attribute but space gives key and str(value).
_format_optional_attrs(q) ==
    LET items == [i \in 1..Len(optional_attrs) |->
                    IF optional_attrs[i] # "space"
                    THEN string_key_reference(optional_attrs[i])
                            \o str(q[optional_attrs[i]])
                    ELSE Star]
        s1 == replace(join(items), <<"_", "*", "_">>, Star)
        s2 == IF ~_all_optional_exist(q) THEN s1 \o Star ELSE s1
    IN replace(s2, <<"*", "*">>, Star)

\* _build_query_filename: the glob, or UnboundLocalError when
\* suffix_extension_str was never assigned.
_build_query_filename(q) ==
    LET mandatory == IF ~_all_optional_exist(q)
                     THEN _format_mandatory_attrs(q) \o Star
                     ELSE _format_mandatory_attrs(q)
        optional == _format_optional_attrs(q)
        suffix_str == IF q.suffix = None /\ _all_optional_exist(q)
                      THEN Star ELSE q.suffix
        extension_str == IF suffix_str # None THEN Star ELSE q.extension
    IN IF ~(suffix_str # None /\ extension_str # None)
       THEN [out |-> "UnboundLocalError", value |-> <<>>]
       ELSE LET se == replace(suffix_str \o <<".">> \o extension_str,
                              <<"*", ".", "*">>, Star)
                ose == replace(join(<<optional, se>>), <<"*", "_", "*">>, Star)
            IN [out |-> "ok",
                value |-> replace(join(<<mandatory, ose>>), <<"*", "_", "*">>, Star)]

\* _build_query_pathname
_build_query_pathname(q) ==
    <<"s", "u", "b", "-">> \o or_star(q.subject) \o <<"/">>
        \o <<"s", "e", "s", "-">> \o or_star(q.session) \o <<"/">> \o or_star(q.datatype)

\* The value a field has when it is given.
FieldValue(f) ==
    CASE f = "subject" -> <<"0", "1">>
      [] f = "session" -> <<"2">>
      [] f = "datatype" -> <<"e", "e", "g">>
      [] f = "space" -> <<"c">>
      [] f = "task" -> <<"t">>
      [] f = "acquisition" -> <<"a">>
      [] f = "run" -> <<"1">>
      [] f = "recording" -> <<"r">>
      [] f = "description" -> <<"d">>
      [] f = "suffix" -> <<"e", "e", "g">>
      [] f = "extension" -> <<".", "x">>

\* BidsQuery(**params) for every subset of the fields.
Queries ==
    {[f \in QueryFields |-> IF f \in given THEN FieldValue(f) ELSE None] :
        given \in SUBSET QueryFields}

\* query.filename
Filename ==
    /\ last.op = "init"
    /\ last' = Call("filename", "A", "A", _build_query_filename(kw).out, "none")
                  @@ [value |-> _build_query_filename(kw).value]
    /\ UNCHANGED <<objs, heap, fs, kw>>

\* query.relative_path
RelativePath ==
    /\ last.op = "init"
    /\ last' = Call("relative_path", "A", "A", "ok", "none")
                  @@ [value |-> _build_query_pathname(kw)]
    /\ UNCHANGED <<objs, heap, fs, kw>>

\* One query; kw holds its fields.
InitQuery ==
    /\ kw \in Queries
    /\ objs = [s \in Slots |-> NoObj]
    /\ heap = <<>>
    /\ fs = <<>>
    /\ last = NoCall

NextQuery == Filename \/ RelativePath

SpecQuery == InitQuery /\ [][NextQuery]_vars

\* ------------------------------------------------------------ BIDS paths
\* BidsPath of paths/bids.py.  A path object is the record of its fields; a
\* filesystem path is the list of its components.
PathFields ==
    {"subject", "session", "datatype", "task", "run", "acquisition",
     "description", "suffix", "extension"}

\* prefix_mapping of _validate_and_normalize_entities, in its order.
prefix_attrs ==
    <<"subject", "session", "task", "run", "acquisition", "description">>

prefix_mapping(attr) ==
    CASE attr = "subject" -> <<"s", "u", "b">>
      [] attr = "session" -> <<"s", "e", "s">>
      [] attr = "task" -> <<"t", "a", "s", "k">>
      [] attr = "run" -> <<"r", "u", "n">>
      [] attr = "acquisition" -> <<"a", "c", "q">>
      [] attr = "description" -> <<"d", "e", "s", "c">>

\* _normalize_entity(prefix, value)
_normalize_entity(prefix, value) ==
    IF value = None THEN None
    ELSE LET v == strip(value)
         IN IF startswith(v, prefix \o <<"-">>)
            THEN SubSeq(v, Len(prefix) + 2, Len(v))
            ELSE v

\* The check of _validate_and_normalize_entities on one value: a hyphen and
\* another text than the prefix before the first one.
invalid_prefix(prefix, value) ==
    value # None /\ HasHyphen(value) /\ split(value)[1] # prefix

\* BidsPath(**fields): the normalized record, or ValueError.
BidsPath(fields) ==
    IF \E i \in 1..Len(prefix_attrs) :
          invalid_prefix(prefix_mapping(prefix_attrs[i]), fields[prefix_attrs[i]])
    THEN [out |-> "ValueError", value |-> fields]
    ELSE [out |-> "ok",
          value |-> [f \in PathFields |->
                       IF \E i \in 1..Len(prefix_attrs) : prefix_attrs[i] = f
                       THEN _normalize_entity(prefix_mapping(f), fields[f])
                       ELSE fields[f]]]

\* if self.x: neither None nor empty.
truthy(v) == v # None /\ v # <<>>

\* _make_basename
_make_basename(e) ==
    join(<<<<"s", "u", "b", "-">> \o str(e.subject), <<"s", "e", "s", "-">> \o str(e.session)>>
         \o (IF truthy(e.task) THEN <<<<"t", "a", "s", "k", "-">> \o e.task>> ELSE <<>>)
         \o (IF truthy(e.acquisition) THEN <<<<"a", "c", "q", "-">> \o e.acquisition>> ELSE <<>>)
         \o (IF truthy(e.run) THEN <<<<"r", "u", "n", "-">> \o e.run>> ELSE <<>>)
         \o (IF truthy(e.description) THEN <<<<"d", "e", "s", "c", "-">> \o e.description>> ELSE <<>>)
         \o (IF truthy(e.suffix) THEN <<e.suffix>> ELSE <<>>))

\* filename: the basename and self.extension or ''.
filename(e) == _make_basename(e) \o (IF truthy(e.extension) THEN e.extension ELSE <<>>)

\* _make_path(absolute=False) of BasePath: the components sub-<subject>,
\* ses-<session> and the datatype, each only when the field is set.
_make_path(e) ==
    (IF truthy(e.subject) THEN <<<<"s", "u", "b", "-">> \o e.subject>> ELSE <<>>)
    \o (IF truthy(e.session) THEN <<<<"s", "e", "s", "-">> \o e.session>> ELSE <<>>)
    \o (IF truthy(e.datatype) THEN <<e.datatype>> ELSE <<>>)

\* fullpath of a path object without root: the parts of path / filename.
fullpath(e) == _make_path(e) \o <<filename(e)>>

\* PurePath.suffix and PurePath.stem of a name: the text from the last dot on
\* when that dot is neither first nor last.
last_dot(name) ==
    IF \E i \in 1..Len(name) : name[i] = "."
    THEN CHOOSE i \in 1..Len(name) :
            name[i] = "." /\ \A j \in (i + 1)..Len(name) : name[j] # "."
    ELSE 0

path_suffix(name) ==
    IF last_dot(name) > 1 /\ last_dot(name) < Len(name)
    THEN SubSeq(name, last_dot(name), Len(name)) ELSE <<>>

path_stem(name) ==
    IF last_dot(name) > 1 /\ last_dot(name) < Len(name)
    THEN SubSeq(name, 1, last_dot(name) - 1) ELSE name

\* s.split("_")
RECURSIVE split_underscore(_)
split_underscore(s) ==
    IF ~\E i \in 1..Len(s) : s[i] = "_" THEN <<s>>
    ELSE LET i == CHOOSE k \in 1..Len(s) :
                      s[k] = "_" /\ \A j \in 1..(k - 1) : s[j] # "_"
         IN <<SubSeq(s, 1, i - 1)>> \o split_underscore(SubSeq(s, i + 1, Len(s)))

\* The field a key of the filename is stored in, "" for any other key.
entity_of_key(key) ==
    CASE key = <<"s", "u", "b">> -> "subject"
      [] key = <<"s", "e", "s">> -> "session"
      [] key = <<"t", "a", "s", "k">> -> "task"
      [] key = <<"a", "c", "q">> -> "acquisition"
      [] key = <<"r", "u", "n">> -> "run"
      [] key = <<"d", "e", "s", "c">> -> "description"
      [] OTHER -> ""

\* The loop of from_filename over name_parts: a later part overwrites.
RECURSIVE name_entities(_, _)
name_entities(entities, name_parts) ==
    IF name_parts = <<>> THEN entities
    ELSE LET part == name_parts[1]
             f == IF HasHyphen(part) THEN entity_of_key(before_hyphen(part)) ELSE ""
         IN name_entities(
               IF f = "" THEN entities
               ELSE [entities EXCEPT ![f] = after_hyphen(part)],
               Tail(name_parts))

NoEntities == [f \in PathFields |-> None]

\* from_filename(file) for the parts of file: the directories give datatype,
\* subject and session, then the name gives the entities, the suffix and the
\* extension, then the constructor runs.  _check_filename of BasePath is
\* taken to accept the file.
from_filename(parts) ==
    LET n == Len(parts)
        name_parts == split_underscore(path_stem(parts[n]))
    IN IF \/ n > 2 /\ Len(split(parts[n - 2])) < 2
          \/ n > 3 /\ Len(split(parts[n - 3])) < 2
       THEN [out |-> "IndexError", value |-> NoEntities]
       ELSE LET dirs == [f \in PathFields |->
                           CASE f = "datatype" /\ n > 2 -> parts[n - 1]
                             [] f = "subject" /\ n > 2 -> split(parts[n - 2])[2]
                             [] f = "session" /\ n > 3 -> split(parts[n - 3])[2]
                             [] OTHER -> None]
                named == name_entities(dirs, name_parts)
            IN BidsPath([named EXCEPT !.suffix = name_parts[Len(name_parts)],
                                      !.extension = path_suffix(parts[n])])

\* The values given for a field; the first is the field left out.
Given1(f) ==
    CASE f = "subject" -> {None, <<"0", "1">>, <<"s", "u", "b", "-", "0", "1">>, <<"s", "e", "s", "-", "0", "1">>,
                           <<"s", "u", "b", "-", "s", "u", "b", "-", "1">>, <<" ", "1", " ">>}
      [] f = "session" -> {None, <<"2">>, <<"s", "e", "s", "-", "2">>}
      [] f = "datatype" -> {None, <<"e", "e", "g">>}
      [] f = "task" -> {None, <<"t">>, <<"t", "a", "s", "k", "-", "t">>, <<"s", "u", "b", "-", "t">>}
      [] f = "run" -> {None, <<"1">>}
      [] f = "acquisition" -> {None, <<"a">>}
      [] f = "description" -> {None, <<"d">>}
      [] f = "suffix" -> {None, <<"e", "e", "g">>}
      [] f = "extension" -> {None, <<".", "x">>, <<".", "n", ".", "g", "z">>}

PathInputs ==
    {[subject |-> su, session |-> se, datatype |-> dt, task |-> ta, run |-> ru,
      acquisition |-> ac, description |-> de, suffix |-> sx, extension |-> ex] :
        su \in Given1("subject"), se \in Given1("session"),
        dt \in Given1("datatype"), ta \in Given1("task"), ru \in Given1("run"),
        ac \in Given1("acquisition"), de \in Given1("description"),
        sx \in Given1("suffix"), ex \in Given1("extension")}

\* e = BidsPath(**kw)
Construct ==
    /\ last.op = "init"
    /\ last' = Call("BidsPath", "A", "A", BidsPath(kw).out, "none")
                  @@ [value |-> BidsPath(kw).value]
    /\ UNCHANGED <<objs, heap, fs, kw>>

\* BidsPath.from_filename(e.fullpath) for the path object e just made.
FromFilename ==
    /\ last.op = "BidsPath" /\ last.out = "ok"
    /\ last' = Call("from_filename", "A", "A", from_filename(fullpath(last.value)).out, "none")
                  @@ [e |-> last.value, path |-> fullpath(last.value),
                      value |-> from_filename(fullpath(last.value)).value]
    /\ UNCHANGED <<objs, heap, fs, kw>>

\* BidsPath(**fields of e) for the path object e just made.
ConstructAgain ==
    /\ last.op = "BidsPath" /\ last.out = "ok"
    /\ last' = Call("again", "A", "A", BidsPath(last.value).out, "none")
                  @@ [e |-> last.value, value |-> BidsPath(last.value).value]
    /\ UNCHANGED <<objs, heap, fs, kw>>

\* One set of constructor arguments in kw.
InitPath ==
    /\ kw \in PathInputs
    /\ objs = [s \in Slots |-> NoObj]
    /\ heap = <<>>
    /\ fs = <<>>
    /\ last = NoCall

NextPath == Construct \/ FromFilename \/ ConstructAgain

SpecPath == InitPath /\ [][NextPath]_vars

\* ------------------------------------------------ claims on set algebra
RowSet(t) == {t[i] : i \in 1..Len(t)}

\* The call just made was a set operator that returned a result.
Returned(op) == last.op = op /\ last.out = "ok"

LeftDb == Db(last.a)

RightDb == Db(last.b)

Shared == Ids(LeftDb) \cap Ids(RightDb)

\* C1: the union A + B is all of A's rows, in A's order, followed by exactly
\* the rows of B whose unique_id is not a key of A (their relative order is
\* not part of the claim); a unique_id of both carries A's row, not B's.
C1_UnionKeepsLeft ==
    Returned("add") =>
        LET r == Db("R")
            n == Len(LeftDb)
            tail == SubSeq(r, n + 1, Len(r))
        IN /\ Len(r) >= n
           /\ SubSeq(r, 1, n) = LeftDb
           /\ RowSet(tail) = {x \in RowSet(RightDb) : x.id \notin Ids(LeftDb)}
           /\ UniqueIds(r)
           /\ \A i \in 1..Len(r) :
                  r[i].id \in Shared => r[i] \in RowSet(LeftDb)

C1_Witness ==
    /\ Returned("add")
    /\ \E x \in RowSet(LeftDb), y \in RowSet(RightDb) : x.id = y.id /\ x # y
    /\ \E y \in RowSet(RightDb) : y.id \notin Ids(LeftDb)
    /\ Len(Db("R")) = Len(LeftDb) + 1

\* C2: the difference A - B is exactly the rows of A whose unique_id is not a
\* key of B, each once.
C2_DifferenceRows ==
    Returned("sub") =>
        /\ RowSet(Db("R")) = {x \in RowSet(LeftDb) : x.id \notin Ids(RightDb)}
        /\ UniqueIds(Db("R"))

C2_Witness ==
    /\ Returned("sub")
    /\ last.a # last.b
    /\ Shared # {}
    /\ Len(Db("R")) > 0
    /\ Len(Db("R")) < Len(LeftDb)

\* C3: the intersection A & B is exactly the rows of A whose unique_id is a
\* key of B, each once and as it stands in A, never as it stands in B.
C3_IntersectionRows ==
    Returned("and") =>
        /\ RowSet(Db("R")) = {x \in RowSet(LeftDb) : x.id \in Ids(RightDb)}
        /\ UniqueIds(Db("R"))

C3_Witness ==
    /\ Returned("and")
    /\ Len(Db("R")) > 0
    /\ Len(Db("R")) < Len(LeftDb)
    /\ \E x \in RowSet(Db("R")) : x \notin RowSet(RightDb)

\* C4: with k the number of unique_ids A and B share, len(A + B) =
\* len(A) + len(B) - k, len(A & B) = k, len(A - B) = len(A) - k, and
\* (A - B) & (A & B) has no row.
C4_Cardinalities ==
    LET k == Cardinality(Shared)
    IN /\ Returned("add") => Len(Db("R")) = Len(LeftDb) + Len(RightDb) - k
       /\ Returned("and") => Len(Db("R")) = k
       /\ Returned("sub") =>
              /\ Len(Db("R")) = Len(LeftDb) - k
              /\ Len(and_db(Db("R"), and_db(LeftDb, RightDb))) = 0

C4_Witness ==
    /\ Returned("sub")
    /\ Cardinality(Shared) = 1
    /\ Len(LeftDb) = 2
    /\ Len(Db("R")) = 1
    /\ Len(and_db(LeftDb, RightDb)) = 1

\* C5: the error table of the result of a union, difference or intersection
\* is A's error rows followed by the error rows of B whose unique_id is not a
\* key of A's error table; when only A's error table is empty it is B's.
C5_ErrorsMerged ==
    (last.op \in SetOps /\ last.out = "ok") =>
        LET ea == Err(last.a)
            eb == Err(last.b)
            NotInA(x) == x.id \notin Ids(ea)
        IN /\ Err("R") = ea \o SelectSeq(eb, NotInA)
           /\ (Len(ea) = 0 /\ Len(eb) > 0) => Err("R") = eb

C5_Witness ==
    /\ last.op \in SetOps /\ last.out = "ok"
    /\ \E x \in RowSet(Err(last.a)), y \in RowSet(Err(last.b)) :
           x.id = y.id /\ x # y
    /\ \E y \in RowSet(Err(last.b)) : y.id \notin Ids(Err(last.a))
    /\ Len(Err("R")) = Len(Err(last.a)) + 1

\* C6: the result of a set operator holds no table that an operand holds:
\* neither its file table nor its error table is a table of A or of B, also
\* when both error tables are empty.
C6_NoSharedStorage ==
    (last.op \in SetOps /\ last.out = "ok") =>
        {objs["R"].db, objs["R"].err} \cap Held([objs EXCEPT !["R"] = NoObj]) = {}

SelectedCopy == last.op = "select" /\ last.b = "copy"

\* What that call gave: its outcome, and the rows returned.
OneCall ==
    [out |-> last.out,
     rows |-> IF last.out = "ok" THEN RowSet(Db("R")) ELSE {}]

\* What db.select(c1).select(c2) gives.
Chained(db, c1, c2) ==
    LET m1 == _create_mask(db, <<c1>>)
        db1 == FilterRows(db, m1.keep)
        m2 == _create_mask(db1, <<c2>>)
    IN IF m1.out # "ok" THEN [out |-> m1.out, rows |-> {}]
       ELSE IF m2.out # "ok" THEN [out |-> m2.out, rows |-> {}]
       ELSE [out |-> "ok", rows |-> RowSet(FilterRows(db1, m2.keep))]

TwoCriteria ==
    /\ Len(kw) = 2
    /\ kw[1].key # kw[2].key
    /\ {kw[1].key, kw[2].key} \subseteq valid_keys

\* C8 as stated: select(a=X, b=Y) gives what select(a=X).select(b=Y) and
\* select(b=Y).select(a=X) give, for any two criteria on different columns.
C8_AndAsStated ==
    (SelectedCopy /\ TwoCriteria) =>
        /\ OneCall = Chained(Db("A"), kw[1], kw[2])
        /\ OneCall = Chained(Db("A"), kw[2], kw[1])

\* The single criterion of kw is a string "a-b", "a-*" or "*-b" on a column of
\* digit strings only.
RangeOnNumeric ==
    /\ Len(kw) = 1
    /\ kw[1].key \in {"subject", "run"}
    /\ kw[1].val.kind = "str"
    /\ LET parts == split(strip(kw[1].val.s))
       IN /\ Len(parts) = 2
          /\ isdigit(parts[1]) \/ parts[1] = <<"*">>
          /\ isdigit(parts[2]) \/ parts[2] = <<"*">>
    /\ Len(Db("A")) > 0
    /\ \A i \in 1..Len(Db("A")) :
           Db("A")[i][kw[1].key] # None /\ isdigit(Db("A")[i][kw[1].key])

\* C9: on a column of digit strings, select(col="a-b") keeps exactly the rows
\* with a <= int(value) <= b, where "*" is the column's minimum on the left and
\* its maximum on the right.
C9_RangeInclusive ==
    (SelectedCopy /\ RangeOnNumeric) =>
        LET key == kw[1].key
            parts == split(strip(kw[1].val.s))
            nums == {int(Db("A")[i][key]) : i \in 1..Len(Db("A"))}
            lo == IF parts[1] = <<"*">>
                  THEN CHOOSE m \in nums : \A n \in nums : m <= n
                  ELSE int(parts[1])
            hi == IF parts[2] = <<"*">>
                  THEN CHOOSE m \in nums : \A n \in nums : m >= n
                  ELSE int(parts[2])
        IN /\ last.out = "ok"
           /\ RowSet(Db("R")) =
                  {x \in RowSet(Db("A")) : lo <= int(x[key]) /\ int(x[key]) <= hi}

\* The single criterion of kw is a literal that no row of A carries.
LiteralWithoutMatch ==
    /\ Len(kw) = 1
    /\ kw[1].key \in {"subject", "run"}
    /\ kw[1].val.kind = "str"
    /\ Len(strip(kw[1].val.s)) > 0
    /\ ~HasHyphen(kw[1].val.s)
    /\ \A i \in 1..Len(Db("A")) : Db("A")[i][kw[1].key] # strip(kw[1].val.s)

\* C10: select with a single literal that matches no row does not raise and
\* returns an index with no row, and the file table read from that index
\* through the database accessor has no row either.
C10_NoMatchStaysEmpty ==
    /\ (SelectedCopy /\ LiteralWithoutMatch) =>
           (last.out = "ok" /\ Len(Db("R")) = 0)
    /\ (last.op = "database" /\ last.a = "R" /\ last.b = "select"
            /\ LiteralWithoutMatch) => Len(Db("R")) = 0

\* C11: select or remove with a criterion key outside valid_keys raises an
\* error naming the offending keys, and leaves every table as it was, with
\* inplace set or not and with valid criteria alongside or not.
C11_InvalidKeyRaises ==
    [][(/\ last.op = "init"
        /\ last'.op \in {"select", "remove"}
        /\ invalid_keys(kw) # {})
           => /\ last'.out = "ValueError"
              /\ last'.msg.text = "Invalid selection keys"
              /\ last'.msg.keys = invalid_keys(kw)
              /\ objs' = objs
              /\ heap' = heap]_vars

C11_Witness ==
    /\ last.op \in {"select", "remove"}
    /\ last.b = "inplace"
    /\ last.out = "ValueError"
    /\ invalid_keys(kw) # {}
    /\ \E i \in 1..Len(kw) :
           /\ kw[i].key \in valid_keys
           /\ _create_mask(Db("A"), <<kw[i]>>).keep \notin {{}, Ids(Db("A"))}

\* The single criterion of kw is a list on an entity column.
ListCriterion ==
    /\ Len(kw) = 1
    /\ kw[1].key \in valid_keys
    /\ kw[1].val.kind = "list"

\* C12: select with a list keeps a row exactly when the row's value in the
\* column is a member of the list: a list with None keeps the rows whose value
\* is missing, and an empty list keeps no row.
C12_ListMembership ==
    (SelectedCopy /\ ListCriterion) =>
        /\ last.out = "ok"
        /\ Db("R") = SelectSeq(Db("A"), LAMBDA x : x[kw[1].key] \in kw[1].val.l)
        /\ kw[1].val.l = {} => Len(Db("R")) = 0

C12_Witness ==
    /\ SelectedCopy /\ ListCriterion
    /\ None \in kw[1].val.l
    /\ \E i \in 1..Len(Db("R")) : Db("R")[i][kw[1].key] = None
    /\ Len(Db("R")) < Len(Db("A"))

\* The call just made was A.remove(**kw) returning a new index or raising.
RemovedCopy == last.op = "remove" /\ last.b = "copy"

\* The rows A.select(**kw) returns.
SelectRows == FilterRows(Db("A"), _create_mask(Db("A"), kw).keep)

\* C13: remove(c) returns exactly the rows select(c) does not return: the two
\* results share no unique_id and together they are the receiver's rows; and
\* remove raises exactly when select does.
C13_RemoveIsComplement ==
    RemovedCopy =>
        /\ last.out = _create_mask(Db("A"), kw).out
        /\ last.out = "ok" =>
               /\ Ids(Db("R")) \cap Ids(SelectRows) = {}
               /\ RowSet(Db("R")) \cup RowSet(SelectRows) = RowSet(Db("A"))
               /\ Len(Db("R")) + Len(SelectRows) = Len(Db("A"))

C13_Witness ==
    /\ RemovedCopy
    /\ last.out = "ok"
    /\ Len(Db("R")) > 0
    /\ Len(SelectRows) > 0

\* C14: select and remove without inplace leave the receiver's two tables as
\* they were and return a new index with the filtered file table and a copy of
\* the error table, and a later write to a table of the result leaves the
\* receiver's tables as they were; with inplace they replace the receiver's
\* file table by the filtered one, keep its error table, and return the
\* receiver.
C14_CopyOrInPlace ==
    [][/\ (/\ last.op = "init"
           /\ last'.op \in {"select", "remove"}
           /\ last'.out = "ok")
          => LET t == masked(Db("A"), last'.op = "select", _create_mask(Db("A"), kw))
             IN IF last'.b = "copy"
                THEN /\ last'.res = "R"
                     /\ objs'["A"] = objs["A"]
                     /\ heap'[objs'["A"].db] = Db("A")
                     /\ heap'[objs'["A"].err] = Err("A")
                     /\ heap'[objs'["R"].db] = t
                     /\ heap'[objs'["R"].err] = Err("A")
                ELSE /\ last'.res = "A"
                     /\ "R" \notin Live(objs')
                     /\ heap'[objs'["A"].db] = t
                     /\ heap'[objs'["A"].err] = Err("A")
       /\ (/\ last.op \in {"select", "remove"}
           /\ last.b = "copy"
           /\ last'.op = "mutate"
           /\ last'.a = "R")
          => /\ heap'[objs'["A"].db] = Db("A")
             /\ heap'[objs'["A"].err] = Err("A")]_vars

\* A write to the error table of the index a select returned, the receiver
\* having error rows.
C14_Witness ==
    /\ last.op = "mutate"
    /\ last.a = "R"
    /\ last.b = "err"
    /\ Len(Err("A")) > 0
    /\ Len(Db("R")) > 0
    /\ Len(Db("R")) < Len(Db("A"))

\* The single criterion of kw is the empty string, and no row of A has an
\* empty value in its column.
EmptyStringCriterion ==
    /\ Len(kw) = 1
    /\ kw[1].key \in valid_keys
    /\ kw[1].val.kind = "str"
    /\ kw[1].val.s = <<>>
    /\ \A i \in 1..Len(Db("A")) : Db("A")[i][kw[1].key] # <<>>

\* C15: select with an empty-string value, on a table where no row has the
\* empty value, returns an index whose file table has no row.
C15_EmptyStringSelectsNothing ==
    (SelectedCopy /\ EmptyStringCriterion) =>
        (last.out = "ok" /\ Len(Db("R")) = 0)

\* --------------------------------------------------- claims on validation
\* validate_bids_file has been called on the candidate File.
Validated == last.op = "validate_bids_file"

File == fs[1]

Listed(reason) == \E i \in 1..Len(last.errors) : last.errors[i] = reason

\* The rules File violates, by the kind of the reason each gives.
ViolatedRules ==
    {accumulated_errors(File)[i].kind : i \in 1..Len(accumulated_errors(File))}
        \cup (IF no_bids_elements(File) THEN {NoBidsElements.kind} ELSE {})

\* C16: for a path that violates two or more rules at once, the failure raised
\* lists every violated reason, not only the first one detected.
C16_AllReasonsListed ==
    (/\ Validated
     /\ last.out # "IndexError"
     /\ Cardinality(ViolatedRules) >= 2)
        => /\ last.out = "BidsValidationError"
           /\ \A i \in 1..Len(accumulated_errors(File)) :
                  Listed(accumulated_errors(File)[i])
           /\ no_bids_elements(File) => Listed(NoBidsElements)

\* c is key-<label> with a label of one or more characters.
IsEntityComponent(c, key) ==
    startswith(c, key \o <<"-">>) /\ Len(c) > Len(key) + 1

\* The parent's last three components are sub-<label>, ses-<label> and a
\* datatype of lowercase letters and digits, in this order.
GoodParent(file) ==
    LET n == Len(file.parent)
    IN /\ n >= 3
       /\ IsEntityComponent(file.parent[n - 2], <<"s", "u", "b">>)
       /\ IsEntityComponent(file.parent[n - 1], <<"s", "e", "s">>)
       /\ valid_datatype_pattern(file.parent[n])

\* C17: validate_bids_file fails for every path with a suffix whose parent's
\* last three components are not sub-<label>, ses-<label>, datatype in this
\* order: also when the first is not sub- prefixed or sub and ses are swapped.
C17_StructureRejected ==
    (Validated /\ File.suffix /\ ~GoodParent(File)) => last.out # "ok"

\* part is, as a whole, <alphanumeric key>-<alphanumeric value>.
FullKeyValue(part) ==
    \E k \in 2..(Len(part) - 1) :
        /\ part[k] = "-"
        /\ \A i \in (1..Len(part)) \ {k} : part[i] \in Alnum

\* C18: validate_bids_file fails whenever a stem component other than the
\* last is not, as a whole, <alphanumeric key>-<alphanumeric value> or has a
\* key outside the whitelist, and an unknown key is reported by name.
C18_EntityGrammarEnforced ==
    (Validated /\ File.suffix) =>
        \A i \in 1..(Len(File.stem) - 1) :
            LET part == File.stem[i]
            IN /\ ~FullKeyValue(part) => last.out # "ok"
               /\ (FullKeyValue(part) /\ before_hyphen(part) \notin valid_entity_keys)
                      => /\ last.out # "ok"
                         /\ Listed(Reason("Invalid key", before_hyphen(part), <<>>))

\* The value the path carries for the entity key in component c, and the
\* value the filename carries for it (None when it carries none or several).
PathValue(c, key) ==
    IF IsEntityComponent(c, key) THEN after_hyphen(c) ELSE None

FilenameValue(stem, key) ==
    LET at == {i \in 1..Len(stem) : IsEntityComponent(stem[i], key)}
    IN IF Cardinality(at) = 1 THEN after_hyphen(stem[CHOOSE i \in at : TRUE])
       ELSE None

\* The path of File, in component c, and its filename both carry the entity
\* key.
BothCarry(c, key) ==
    PathValue(c, key) # None /\ FilenameValue(File.stem, key) # None

\* C19: when the path and the filename both carry a subject (a session), the
\* validation passes only if the two values are equal, and on a mismatch the
\* failure lists a reason with both values.
C19_MismatchReported ==
    (Validated /\ File.suffix /\ Len(File.parent) = 3) =>
        /\ BothCarry(File.parent[1], <<"s", "u", "b">>) =>
               LET pv == PathValue(File.parent[1], <<"s", "u", "b">>)
                   fv == FilenameValue(File.stem, <<"s", "u", "b">>)
               IN /\ last.out = "ok" => pv = fv
                  /\ pv # fv => Listed(Reason("Subject mismatch", pv, fv))
        /\ BothCarry(File.parent[2], <<"s", "e", "s">>) =>
               LET pv == PathValue(File.parent[2], <<"s", "e", "s">>)
                   fv == FilenameValue(File.stem, <<"s", "e", "s">>)
               IN /\ last.out = "ok" => pv = fv
                  /\ pv # fv => Listed(Reason("Session mismatch", pv, fv))

\* ----------------------------------------------------- claims on the build
\* The candidates of a build: the files the exclusion predicate does not skip.
Candidates == {i \in 1..Len(fs) : ~fs[i].test}

ValidCandidates == {i \in Candidates : fs[i].ok /\ fs[i].parses}

FullBuild(o, h, s) ==
    /\ h[o[s].db] = scan_db(fs)
    /\ h[o[s].err] = scan_errors(fs)

\* The tables of s are the same before and after the step.
TablesKept(s) ==
    /\ objs'[s].db # 0 /\ objs'[s].err # 0
    /\ objs[s].db # 0 /\ objs[s].err # 0
    /\ heap'[objs'[s].db] = Db(s)
    /\ heap'[objs'[s].err] = Err(s)

\* The accessor read in this step, of the index in slot s.
Reads(acc, s) == last'.op = acc /\ last'.a = s

\* The table an accessor looks at: "database" at _database, "errors" at
\* _errors.
Table(acc, s) == IF acc = "database" THEN objs[s].db ELSE objs[s].err

\* C21: a read of the file table or of the error table never raises: on an
\* index with a root and an empty table it runs a full build, on an index with
\* no root it returns the table as it is; only create_database() with no root
\* raises, and leaves both tables unchanged.
C21_ReadsNeverRaise ==
    [][\A s \in Slots :
          /\ \A acc \in {"database", "errors"} :
                Reads(acc, s) =>
                   /\ last'.out = "ok"
                   /\ objs[s].root /\ Len(heap[Table(acc, s)]) = 0
                         => FullBuild(objs', heap', s)
                   /\ ~objs[s].root => TablesKept(s)
          /\ Reads("create_database", s) /\ ~objs[s].root
                => last'.out = "ValueError" /\ UNCHANGED <<objs, heap>>]_vars

\* A read of an index that was made with no root and never given a table.
C21_Witness ==
    /\ last.op \in {"database", "errors"}
    /\ objs[last.a] = NewIndex
    /\ last.out = "AttributeError"


\* The values of a column of the file table of s, missing ones left out.
ColumnValues(s, column) ==
    {Db(s)[i][column] : i \in 1..Len(Db(s))} \ {None}

\* A unique-value accessor was read on an index that holds a file table.
UniqueRead == last.op = "unique" /\ objs[last.a].db # 0

Occurrences(s, sub) ==
    {i \in 1..Len(s) : i + Len(sub) - 1 <= Len(s)
                          /\ SubSeq(s, i, i + Len(sub) - 1) = sub}

contains(s, sub) == Occurrences(s, sub) # {}

\* The entities of the filename glob in canonical order.
OptionalEntities == <<"task", "acquisition", "run", "recording", "description">>

\* <key>-<value> of an entity that is set.
Token(q, attr) == string_key_reference(attr) \o q[attr]

\* The filename of a query with every entity, the suffix and the extension
\* set, as test_query_pattern_generation expects it.
CanonicalFilename(q) ==
    join(<<<<"s", "u", "b", "-">> \o q.subject, <<"s", "e", "s", "-">> \o q.session,
           Token(q, "task"), Token(q, "acquisition"), Token(q, "run"),
           Token(q, "recording"), Token(q, "description"), q.suffix>>)
        \o q.extension

EverythingSet(q) == \A f \in QueryFields \ {"space"} : q[f] # None

\* The filename glob of the query was built.
FilenameBuilt == last.op = "filename" /\ last.out = "ok"

\* C23: in the filename glob every optional entity that is set appears as
\* <key>-<value>, in canonical order; an entity that is not set contributes
\* no token; with every entity, the suffix and the extension set the glob is
\* the canonical filename, without a wildcard.
C23_EntityTokens ==
    FilenameBuilt =>
       /\ \A i \in 1..Len(OptionalEntities) :
             LET attr == OptionalEntities[i]
             IN IF kw[attr] # None
                THEN contains(last.value, Token(kw, attr))
                ELSE ~contains(last.value, string_key_reference(attr))
       /\ \A i, j \in 1..Len(OptionalEntities) :
             i < j /\ kw[OptionalEntities[i]] # None /\ kw[OptionalEntities[j]] # None
                => \A m \in Occurrences(last.value, Token(kw, OptionalEntities[i])),
                      n \in Occurrences(last.value, Token(kw, OptionalEntities[j])) :
                      m < n
       /\ EverythingSet(kw) /\ kw.space = None
             => last.value = CanonicalFilename(kw) /\ ~contains(last.value, Star)

\* C24: the filename glob never holds two adjacent wildcards, nor a wildcard
\* on both sides of a separator.
C24_WildcardsCollapsed ==
    FilenameBuilt =>
       /\ ~contains(last.value, <<"*", "*">>)
       /\ ~contains(last.value, <<"*", "_", "*">>)
       /\ ~contains(last.value, <<"*", ".", "*">>)

\* C25: the directory glob and the filename glob are built for every subset
\* of the fields; with no field set they are sub-*/ses-*/* and sub-*_ses-*.
C25_GlobsAlwaysBuilt ==
    /\ last.op \in {"filename", "relative_path"} => last.out = "ok"
    /\ last.op = "relative_path" /\ (\A f \in QueryFields : kw[f] = None)
          => last.value = <<"s", "u", "b", "-", "*", "/", "s", "e", "s", "-", "*", "/", "*">>
    /\ last.op = "filename" /\ (\A f \in QueryFields : kw[f] = None)
          => last.value = <<"s", "u", "b", "-", "*", "_", "s", "e", "s", "-", "*">>

\* ---------------------------------------------------- claims on the paths
\* A path object was parsed back from its own full path.
ParsedBack == last.op = "from_filename"

\* C26: parsing the relative path of a path object joined with its filename
\* returns the same object: every entity, the suffix and the extension are
\* recovered unchanged.
C26_RoundTrip ==
    ParsedBack => last.out = "ok" /\ last.value = last.e

\* The round trip of a path object with every field set and an extension
\* with one dot.
C26_Witness ==
    /\ ParsedBack
    /\ \A f \in PathFields : last.e[f] # None
    /\ last.e.extension = <<".", "x">>
    /\ last.value = last.e

\* The value given for attr carries the key prefix of attr itself.
OwnPrefix(fields, attr) ==
    fields[attr] # None /\ startswith(fields[attr], prefix_mapping(attr) \o <<"-">>)

\* The value given for attr carries a prefix that is not the one of attr.
ForeignPrefix(fields, attr) ==
    /\ fields[attr] # None /\ HasHyphen(fields[attr])
    /\ before_hyphen(fields[attr]) # prefix_mapping(attr)

PrefixAttrs == {prefix_attrs[i] : i \in 1..Len(prefix_attrs)}

\* C27: on construction a value with the key prefix of its own field is
\* accepted and stored without the prefix; a value with a prefix of another
\* field is rejected with an error; normalizing a normalized value returns
\* it unchanged.
C27_Normalization ==
    /\ last.op = "BidsPath" =>
          /\ (\E attr \in PrefixAttrs : ForeignPrefix(kw, attr))
                => last.out = "ValueError"
          /\ (\A attr \in PrefixAttrs : ~ForeignPrefix(kw, attr))
                => /\ last.out = "ok"
                   /\ \A attr \in PrefixAttrs :
                         OwnPrefix(kw, attr) =>
                            last.value[attr]
                               = SubSeq(kw[attr], Len(prefix_mapping(attr)) + 2,
                                        Len(kw[attr]))
    /\ last.op = "again" => last.out = "ok" /\ last.value = last.e

\* ------------------------------------------------- claims on the invariants
\* C28: unique_id stays a primary key: in every index reached by any sequence
\* of build, select, remove, union, difference and intersection from indexes
\* with unique keys, no two rows of the file table carry the same unique_id.
C28_PrimaryKey ==
    \A s \in Live(objs) : UniqueIds(Db(s))

\* The union of an index that is itself the result of a set operator (after
\* the build, A has a root; a result has none) with an index that shares
\* some of its labels and has others.
C28_Witness ==
    /\ last.op = "add" /\ last.out = "ok" /\ last.a = "A" /\ last.b = "B"
    /\ ~objs["A"].root
    /\ Ids(Db("A")) \cap Ids(Db("B")) # {}
    /\ Ids(Db("B")) \ Ids(Db("A")) # {}
    /\ Len(Db("R")) = Cardinality(Ids(Db("A")) \cup Ids(Db("B")))

\* The file table of s after the step.
DbAfter(s) == heap'[objs'[s].db]

\* The `database` accessor of s returned a table in this step.
DatabaseRead(s) == Reads("database", s) /\ last'.out = "ok"

\* C29: in every state reached by build, select and remove, len(index) is
\* the number of rows of the table the `database` accessor returns, and the
\* unique-value accessors describe that table.
C29_LenMatchesDatabase ==
    [][\A s \in Slots :
          DatabaseRead(s) =>
             /\ Len(Db(s)) = Len(DbAfter(s))
             /\ \A column \in UniqueColumns :
                   _get_unique_values(Db(s), column)
                      = _get_unique_values(DbAfter(s), column)]_vars

\* The `database` accessor read on an index that a select left without rows.
C29_Witness ==
    /\ last.op = "database" /\ last.b = "select" /\ last.out = "ok"
    /\ Len(Db(last.a)) > 0
    /\ _create_mask(Db(last.a), kw).keep = {}

\* The error table of s was read in this step, by the accessor or by
\* print_errors_log.
ErrorsRead(s) == Reads("errors", s) \/ Reads("print_errors_log", s)

\* C30: reading the error table never changes the file table of an index that
\* holds rows: the file table is the same before and after the read.
C30_ErrorsReadKeepsFiles ==
    [][\A s \in Slots :
          ErrorsRead(s) /\ objs[s].db # 0 /\ Len(Db(s)) > 0
             => DbAfter(s) = Db(s)]_vars

\* The error table read after a select that kept some rows and dropped others.
C30_Witness ==
    /\ last.op \in {"errors", "print_errors_log"} /\ last.b = "select"
    /\ Len(Db(last.a)) > 0
    /\ _create_mask(Db(last.a), kw).out = "ok"
    /\ _create_mask(Db(last.a), kw).keep # Ids(Db(last.a))
    /\ _create_mask(Db(last.a), kw).keep # {}

====

